---- MODULE Spec2Model ----
(***************************************************************************)
(* Model of squareup's CustomersApi (src/squareup/src/api/customers_api.rs). *)
(*                                                                         *)
(* A CustomersApi holds an immutable Configuration (its base URL) and an   *)
(* HttpClient.  Each of the eight async methods builds a URL, hands one    *)
(* request to the HttpClient, awaits it, applies `?` to the outcome, then  *)
(* awaits the deserialization of the response and returns its outcome.     *)
(*                                                                         *)
(* Strings are sequences of one-character strings, so that concatenation   *)
(* (format!) is \o and the characters of a URL can be inspected.           *)
(* Several callers use the same CustomersApi concurrently; a caller's step *)
(* runs from one await to the next.                                        *)
(***************************************************************************)
EXTENDS Integers, Sequences, FiniteSets, TLC

VARIABLES config, http_client, pc, op, args, sent, transport, deser, result,
          trace, suspensions

vars == <<config, http_client, pc, op, args, sent, transport, deser, result,
          trace, suspensions>>

(***************************************************************************)
(* Bounds and input domains                                                *)
(***************************************************************************)

\* largest optimistic-concurrency version a caller supplies (0..MaxVersion)
MaxVersion == 1

\* the callers that share one CustomersApi
Calls == {"caller1", "caller2"}

\* base URLs a Configuration can yield (production, sandbox), abbreviated
BaseUrls == { <<"h", ":", "/", "/", "p", "/", "v", "2">>,
              <<"h", ":", "/", "/", "s", "/", "v", "2">> }

None == [some |-> FALSE]
Some(v) == [some |-> TRUE, val |-> v]

Versions == {None} \cup {Some(v) : v \in 0..MaxVersion}

\* customer ids: "abc", "", "abc/groups/g1", "abc?version=1"
CustomerIds == { <<"a", "b", "c">>,
                 << >>,
                 <<"a", "b", "c", "/", "g", "r", "o", "u", "p", "s", "/", "g", "1">>,
                 <<"a", "b", "c", "?", "v", "e", "r", "s", "i", "o", "n", "=", "1">> }

\* group ids: "g1", "x"
GroupIds == { <<"g", "1">>, <<"x">> }

\* ListCustomersParameters, reduced to its pagination cursor
ListParams == { [cursor |-> None], [cursor |-> Some(<<"k">>)] }

\* DeleteCustomerParameters { version: Option<i64> }
DeleteParams == { [version |-> v] : v \in Versions }

CreateBodies == { [given_name |-> "Amelia"], [given_name |-> "Bo"] }
SearchBodies == { [limit |-> 1], [limit |-> 2] }
\* UpdateCustomerRequest, reduced to one attribute and the version token
UpdateBodies == { [given_name |-> "Amelia", version |-> v] : v \in Versions }

\* what the transport can answer: an error, or a response whose body does or
\* does not match the schema of the typed result
TransportErrors == {"connection_failed", "api_error_409_conflict"}
Responses == {"well_formed_json", "malformed_json"}

Ok(v) == [ok |-> TRUE, val |-> v]
Err(e) == [ok |-> FALSE, err |-> e]

NoArg == << >>
NoArgs == [customer_id |-> NoArg, group_id |-> NoArg, params |-> None, body |-> None]

(***************************************************************************)
(* Pure helpers                                                            *)
(***************************************************************************)

HasChar(s, ch) == \E i \in 1..Len(s) : s[i] = ch

Digit(d) == CASE d = 0 -> "0" [] d = 1 -> "1" [] d = 2 -> "2" [] d = 3 -> "3"
              [] d = 4 -> "4" [] d = 5 -> "5" [] d = 6 -> "6" [] d = 7 -> "7"
              [] d = 8 -> "8" [] d = 9 -> "9"

RECURSIVE Decimal(_)
\* format!("{}", n) of a non-negative integer
Decimal(n) == IF n < 10 THEN <<Digit(n)>> ELSE Decimal(n \div 10) \o <<Digit(n % 10)>>

\* DeleteCustomerParameters::to_query_string: "" or "?version=<n>"
DeleteToQueryString(params) ==
    IF params.version.some
    THEN <<"?", "v", "e", "r", "s", "i", "o", "n", "=">> \o Decimal(params.version.val)
    ELSE << >>

\* ListCustomersParameters::to_query_string: "" or "?cursor=<cursor>"
ListToQueryString(params) ==
    IF params.cursor.some
    THEN <<"?", "c", "u", "r", "s", "o", "r", "=">> \o params.cursor.val
    ELSE << >>

\* HttpClient's methods, as the request each hands to the network
get(u) == [verb |-> "GET", url |-> u, body |-> None]
post(u, b) == [verb |-> "POST", url |-> u, body |-> Some(b)]
put(u, b) == [verb |-> "PUT", url |-> u, body |-> Some(b)]
delete(u) == [verb |-> "DELETE", url |-> u, body |-> None]
empty_put(u) == [verb |-> "PUT", url |-> u, body |-> None]

\* HttpResponse::deserialize: the typed payload, or a deserialization error
deserialize(resp) ==
    IF resp = "well_formed_json" THEN Ok("payload") ELSE Err("deserialize_error")

(***************************************************************************)
(* customers_api.rs                                                        *)
(***************************************************************************)

DEFAULT_URI == <<"/", "c", "u", "s", "t", "o", "m", "e", "r", "s">>

\* Configuration::get_base_url
get_base_url(cfg) == cfg.base_url

\* fn url(&self): format!("{}{}", base_url, DEFAULT_URI)
url(cfg) == get_base_url(cfg) \o DEFAULT_URI

\* The request each method hands to the HttpClient.
list_customers_request(cfg, params) ==
    get(url(cfg) \o ListToQueryString(params))

create_customer_request(cfg, body) ==
    post(url(cfg), body)

search_customers_request(cfg, body) ==
    post(url(cfg) \o <<"/", "s", "e", "a", "r", "c", "h">>, body)

\* delete_customer with the query string put before the id segment
delete_customer_request_query_first(cfg, customer_id, params) ==
    delete(url(cfg) \o DeleteToQueryString(params) \o <<"/">> \o customer_id)

\* delete_customer that forgets its parameters
delete_customer_request_no_query(cfg, customer_id, params) ==
    delete(url(cfg) \o <<"/">> \o customer_id)

delete_customer_request(cfg, customer_id, params) ==
    delete(url(cfg) \o <<"/">> \o customer_id \o DeleteToQueryString(params))

retrieve_customer_request(cfg, customer_id) ==
    get(url(cfg) \o <<"/">> \o customer_id)

\* update_customer that defaults an absent version to 0
update_customer_request_defaulted(cfg, customer_id, body) ==
    put(url(cfg) \o <<"/">> \o customer_id,
        IF body.version.some THEN body ELSE [body EXCEPT !.version = Some(0)])

update_customer_request(cfg, customer_id, body) ==
    put(url(cfg) \o <<"/">> \o customer_id, body)

\* remove_group_from_customer with its two ids in the wrong order
remove_group_from_customer_request_swapped(cfg, customer_id, group_id) ==
    delete(url(cfg) \o <<"/">> \o group_id
             \o <<"/", "g", "r", "o", "u", "p", "s", "/">> \o customer_id)

remove_group_from_customer_request(cfg, customer_id, group_id) ==
    delete(url(cfg) \o <<"/">> \o customer_id
             \o <<"/", "g", "r", "o", "u", "p", "s", "/">> \o group_id)

\* add_group_to_customer copied from remove_group_from_customer, verb included
add_group_to_customer_request_delete(cfg, customer_id, group_id) ==
    delete(url(cfg) \o <<"/">> \o customer_id
             \o <<"/", "g", "r", "o", "u", "p", "s", "/">> \o group_id)

add_group_to_customer_request(cfg, customer_id, group_id) ==
    empty_put(url(cfg) \o <<"/">> \o customer_id
                \o <<"/", "g", "r", "o", "u", "p", "s", "/">> \o group_id)

Init ==
    /\ config \in [base_url : BaseUrls]
    /\ http_client = "http_client"
    /\ pc = [c \in Calls |-> "idle"]
    /\ op = [c \in Calls |-> "none"]
    /\ args = [c \in Calls |-> NoArgs]
    /\ sent = [c \in Calls |-> << >>]
    /\ transport = [c \in Calls |-> None]
    /\ deser = [c \in Calls |-> None]
    /\ result = [c \in Calls |-> None]
    /\ trace = [c \in Calls |-> << >>]
    /\ suspensions = [c \in Calls |-> 0]

\* Begin with one request buffer shared by all callers
Begin_SharedRequest(c, o, a, req) ==
    /\ pc[c] = "idle"
    /\ pc' = [pc EXCEPT ![c] = "await_request"]
    /\ op' = [op EXCEPT ![c] = o]
    /\ args' = [args EXCEPT ![c] = a]
    /\ sent' = [d \in Calls |-> IF d = c \/ pc[d] # "idle" THEN <<req>> ELSE sent[d]]
    /\ trace' = [trace EXCEPT ![c] = <<"build_url", "send">>]
    /\ suspensions' = [suspensions EXCEPT ![c] = @ + 1]
    /\ UNCHANGED <<config, http_client, transport, deser, result>>

\* First poll of a method's future: the URL is built, the request is handed to
\* the HttpClient, and the caller is suspended on the request's await.
Begin(c, o, a, req) ==
    /\ pc[c] = "idle"
    /\ pc' = [pc EXCEPT ![c] = "await_request"]
    /\ op' = [op EXCEPT ![c] = o]
    /\ args' = [args EXCEPT ![c] = a]
    /\ sent' = [sent EXCEPT ![c] = Append(@, req)]
    /\ trace' = [trace EXCEPT ![c] = <<"build_url", "send">>]
    /\ suspensions' = [suspensions EXCEPT ![c] = @ + 1]
    /\ UNCHANGED <<config, http_client, transport, deser, result>>

list_customers(c) ==
    \E params \in ListParams :
        Begin(c, "list_customers", [NoArgs EXCEPT !.params = params],
              list_customers_request(config, params))

create_customer(c) ==
    \E body \in CreateBodies :
        Begin(c, "create_customer", [NoArgs EXCEPT !.body = Some(body)],
              create_customer_request(config, body))

search_customers(c) ==
    \E body \in SearchBodies :
        Begin(c, "search_customers", [NoArgs EXCEPT !.body = Some(body)],
              search_customers_request(config, body))

delete_customer(c) ==
    \E customer_id \in CustomerIds, params \in DeleteParams :
        Begin(c, "delete_customer",
              [NoArgs EXCEPT !.customer_id = customer_id, !.params = params],
              delete_customer_request(config, customer_id, params))

retrieve_customer(c) ==
    \E customer_id \in CustomerIds :
        Begin(c, "retrieve_customer", [NoArgs EXCEPT !.customer_id = customer_id],
              retrieve_customer_request(config, customer_id))

update_customer(c) ==
    \E customer_id \in CustomerIds, body \in UpdateBodies :
        Begin(c, "update_customer",
              [NoArgs EXCEPT !.customer_id = customer_id, !.body = Some(body)],
              update_customer_request(config, customer_id, body))

remove_group_from_customer(c) ==
    \E customer_id \in CustomerIds, group_id \in GroupIds :
        Begin(c, "remove_group_from_customer",
              [NoArgs EXCEPT !.customer_id = customer_id, !.group_id = group_id],
              remove_group_from_customer_request(config, customer_id, group_id))

add_group_to_customer(c) ==
    \E customer_id \in CustomerIds, group_id \in GroupIds :
        Begin(c, "add_group_to_customer",
              [NoArgs EXCEPT !.customer_id = customer_id, !.group_id = group_id],
              add_group_to_customer_request(config, customer_id, group_id))

\* RequestResolves that sends the request again when the transport failed
RequestResolves_Retry(c, outcome) ==
    /\ pc[c] = "await_request"
    /\ transport' = [transport EXCEPT ![c] = Some(outcome)]
    /\ IF outcome.ok
       THEN /\ pc' = [pc EXCEPT ![c] = "await_deserialize"]
            /\ trace' = [trace EXCEPT ![c] = @ \o <<"response", "deserialize">>]
            /\ suspensions' = [suspensions EXCEPT ![c] = @ + 1]
            /\ UNCHANGED <<result, sent>>
       ELSE IF Len(sent[c]) < 2
       THEN /\ sent' = [sent EXCEPT ![c] = Append(@, @[1])]
            /\ UNCHANGED <<pc, trace, suspensions, result>>
       ELSE /\ pc' = [pc EXCEPT ![c] = "returned"]
            /\ result' = [result EXCEPT ![c] = Some(outcome)]
            /\ trace' = [trace EXCEPT ![c] = @ \o <<"transport_error", "return">>]
            /\ UNCHANGED <<suspensions, sent>>
    /\ UNCHANGED <<config, http_client, op, args, deser>>

\* RequestResolves that awaits the error's body before it returns the error
RequestResolves_AwaitOnError(c, outcome) ==
    /\ pc[c] = "await_request"
    /\ transport' = [transport EXCEPT ![c] = Some(outcome)]
    /\ IF outcome.ok
       THEN /\ pc' = [pc EXCEPT ![c] = "await_deserialize"]
            /\ trace' = [trace EXCEPT ![c] = @ \o <<"response", "deserialize">>]
            /\ UNCHANGED result
       ELSE /\ pc' = [pc EXCEPT ![c] = "returned"]
            /\ result' = [result EXCEPT ![c] = Some(outcome)]
            /\ trace' = [trace EXCEPT ![c] = @ \o <<"transport_error", "return">>]
    /\ suspensions' = [suspensions EXCEPT ![c] = @ + 1]
    /\ UNCHANGED <<config, http_client, op, args, sent, deser>>

\* RequestResolves without the `?`: a failed request is deserialized too
RequestResolves_DeserializeOnError(c, outcome) ==
    /\ pc[c] = "await_request"
    /\ transport' = [transport EXCEPT ![c] = Some(outcome)]
    /\ IF outcome.ok
       THEN /\ pc' = [pc EXCEPT ![c] = "await_deserialize"]
            /\ trace' = [trace EXCEPT ![c] = @ \o <<"response", "deserialize">>]
            /\ suspensions' = [suspensions EXCEPT ![c] = @ + 1]
            /\ UNCHANGED <<result, deser>>
       ELSE /\ pc' = [pc EXCEPT ![c] = "returned"]
            /\ deser' = [deser EXCEPT ![c] = Some(Err("deserialize_error"))]
            /\ result' = [result EXCEPT ![c] = Some(Err("deserialize_error"))]
            /\ trace' = [trace EXCEPT ![c] =
                            @ \o <<"transport_error", "deserialize", "return">>]
            /\ UNCHANGED suspensions
    /\ UNCHANGED <<config, http_client, op, args, sent>>

\* `self.http_client.<verb>(..).await?` resolves: an error returns from the
\* method at once; a response goes on to `response.deserialize()`, whose
\* future is awaited in turn.
RequestResolves(c, outcome) ==
    /\ pc[c] = "await_request"
    /\ transport' = [transport EXCEPT ![c] = Some(outcome)]
    /\ IF outcome.ok
       THEN /\ pc' = [pc EXCEPT ![c] = "await_deserialize"]
            /\ trace' = [trace EXCEPT ![c] = @ \o <<"response", "deserialize">>]
            /\ suspensions' = [suspensions EXCEPT ![c] = @ + 1]
            /\ UNCHANGED result
       ELSE /\ pc' = [pc EXCEPT ![c] = "returned"]
            /\ result' = [result EXCEPT ![c] = Some(outcome)]
            /\ trace' = [trace EXCEPT ![c] = @ \o <<"transport_error", "return">>]
            /\ UNCHANGED suspensions
    /\ UNCHANGED <<config, http_client, op, args, sent, deser>>

AwaitRequest(c) ==
    \E outcome \in {Ok(r) : r \in Responses} \cup {Err(e) : e \in TransportErrors} :
        RequestResolves(c, outcome)

\* AwaitDeserialize that replaces a deserialization error by a default value
AwaitDeserialize_Default(c) ==
    /\ pc[c] = "await_deserialize"
    /\ LET outcome == deserialize(transport[c].val.val)
       IN /\ deser' = [deser EXCEPT ![c] = Some(outcome)]
          /\ result' = [result EXCEPT ![c] =
                           Some(IF outcome.ok THEN outcome ELSE Ok("default"))]
    /\ pc' = [pc EXCEPT ![c] = "returned"]
    /\ trace' = [trace EXCEPT ![c] = @ \o <<"return">>]
    /\ UNCHANGED <<config, http_client, op, args, sent, transport, suspensions>>

\* `response.deserialize().await` resolves and its outcome is the method's.
AwaitDeserialize(c) ==
    /\ pc[c] = "await_deserialize"
    /\ LET outcome == deserialize(transport[c].val.val)
       IN /\ deser' = [deser EXCEPT ![c] = Some(outcome)]
          /\ result' = [result EXCEPT ![c] = Some(outcome)]
    /\ pc' = [pc EXCEPT ![c] = "returned"]
    /\ trace' = [trace EXCEPT ![c] = @ \o <<"return">>]
    /\ UNCHANGED <<config, http_client, op, args, sent, transport, suspensions>>

\* The caller takes the result; it may then call again.
Finish(c) ==
    /\ pc[c] = "returned"
    /\ pc' = [pc EXCEPT ![c] = "idle"]
    /\ op' = [op EXCEPT ![c] = "none"]
    /\ args' = [args EXCEPT ![c] = NoArgs]
    /\ sent' = [sent EXCEPT ![c] = << >>]
    /\ transport' = [transport EXCEPT ![c] = None]
    /\ deser' = [deser EXCEPT ![c] = None]
    /\ result' = [result EXCEPT ![c] = None]
    /\ trace' = [trace EXCEPT ![c] = << >>]
    /\ suspensions' = [suspensions EXCEPT ![c] = 0]
    /\ UNCHANGED <<config, http_client>>

Next ==
    \E c \in Calls :
        \/ list_customers(c)
        \/ create_customer(c)
        \/ search_customers(c)
        \/ delete_customer(c)
        \/ retrieve_customer(c)
        \/ update_customer(c)
        \/ remove_group_from_customer(c)
        \/ add_group_to_customer(c)
        \/ AwaitRequest(c)
        \/ AwaitDeserialize(c)
        \/ Finish(c)

Spec == Init /\ [][Next]_vars

(***************************************************************************)
(* Properties                                                              *)
(***************************************************************************)

Started(c) == pc[c] # "idle"
Returned(c) == pc[c] = "returned"
Request(c) == sent[c][1]
Base == config.base_url

\* C1: every call issues exactly one request on the transport: none before it
\* starts, one from its first step on, and still one when it has returned,
\* whether the transport or the deserialization failed or not.
C1_ExactlyOneRequest ==
    \A c \in Calls :
        /\ pc[c] = "idle" => Len(sent[c]) = 0
        /\ Started(c) => Len(sent[c]) = 1

\* a call that returned a transport error, having issued one request
C1_Witness ==
    \E c \in Calls :
        /\ Returned(c)
        /\ ~transport[c].val.ok
        /\ Len(sent[c]) = 1

VerbOf(o) ==
    CASE o \in {"list_customers", "retrieve_customer"} -> "GET"
      [] o \in {"create_customer", "search_customers"} -> "POST"
      [] o \in {"update_customer", "add_group_to_customer"} -> "PUT"
      [] o \in {"delete_customer", "remove_group_from_customer"} -> "DELETE"

\* C2: each operation issues the verb of its endpoint; create, search and
\* update carry the caller's body, every other operation carries none.
C2_VerbPerOperation ==
    \A c \in Calls :
        Started(c) =>
            /\ Request(c).verb = VerbOf(op[c])
            /\ IF op[c] \in {"create_customer", "search_customers", "update_customer"}
               THEN Request(c).body.some /\ Request(c).body = args[c].body
               ELSE Request(c).body = None

\* add_group_to_customer in flight with a PUT that has no body, while the
\* other caller's update_customer carries its body in a PUT
C2_Witness ==
    \E c, d \in Calls :
        /\ Started(c) /\ op[c] = "add_group_to_customer"
        /\ Request(c).verb = "PUT" /\ Request(c).body = None
        /\ Started(d) /\ op[d] = "update_customer"
        /\ Request(d).verb = "PUT" /\ Request(d).body.some

Customers == <<"/", "c", "u", "s", "t", "o", "m", "e", "r", "s">>
Slash == <<"/">>
Groups == <<"/", "g", "r", "o", "u", "p", "s", "/">>

\* the URL of an operation without any query string
PathOf(o, a) ==
    CASE o \in {"list_customers", "create_customer"} -> Customers
      [] o = "search_customers" -> Customers \o <<"/", "s", "e", "a", "r", "c", "h">>
      [] o \in {"retrieve_customer", "update_customer", "delete_customer"} ->
            Customers \o Slash \o a.customer_id
      [] o \in {"add_group_to_customer", "remove_group_from_customer"} ->
            Customers \o Slash \o a.customer_id \o Groups \o a.group_id

\* C3: the URL of create, search, retrieve, update, add-group and remove-group
\* is the base URL, "/customers" and the operation's suffix with the path
\* parameters in order; customer "abc" and group "g1" give
\* "/customers/abc/groups/g1".
C3_UrlPerOperation ==
    \A c \in Calls :
        Started(c) =>
            /\ op[c] \notin {"list_customers", "delete_customer"} =>
                  Request(c).url = Base \o PathOf(op[c], args[c])
            /\ ( /\ op[c] \in {"add_group_to_customer", "remove_group_from_customer"}
                 /\ args[c].customer_id = <<"a", "b", "c">>
                 /\ args[c].group_id = <<"g", "1">> ) =>
                  Request(c).url =
                      Base \o <<"/", "c", "u", "s", "t", "o", "m", "e", "r", "s",
                                "/", "a", "b", "c",
                                "/", "g", "r", "o", "u", "p", "s", "/", "g", "1">>

\* remove_group_from_customer("abc", "g1") in flight
C3_Witness ==
    \E c \in Calls :
        /\ Started(c) /\ op[c] = "remove_group_from_customer"
        /\ args[c].customer_id = <<"a", "b", "c">>
        /\ args[c].group_id = <<"g", "1">>
        /\ Len(Request(c).url) = Len(Base) + 24

\* C4: a returned call's result is the transport's error when the transport
\* failed, the deserialization error when the response did not deserialize,
\* and the deserialized payload otherwise; success only in the last case.
C4_ErrorsPropagate ==
    \A c \in Calls :
        Returned(c) =>
            /\ result[c].some /\ transport[c].some
            /\ ~transport[c].val.ok => result[c].val = transport[c].val
            /\ transport[c].val.ok =>
                  result[c].val = deserialize(transport[c].val.val)
            /\ result[c].val.ok =>
                  /\ transport[c].val.ok
                  /\ deserialize(transport[c].val.val).ok
                  /\ result[c].val.val = deserialize(transport[c].val.val).val

\* one call returned the deserialization error of a malformed response, the
\* other the transport's 409
C4_Witness ==
    \E c, d \in Calls :
        /\ Returned(c) /\ transport[c].val = Ok("malformed_json")
        /\ result[c].val = Err("deserialize_error")
        /\ Returned(d) /\ result[d].val = Err("api_error_409_conflict")

\* C5: the version token is passed through: update_customer's request body is
\* the caller's body, delete_customer's URL ends with the query string of the
\* caller's parameters, a request is issued for every version (absent too),
\* and the result of two such calls with the same transport outcome is the
\* same whatever their versions.
C5_VersionPassedThrough ==
    /\ \A c \in Calls :
          /\ (Started(c) /\ op[c] = "update_customer") =>
                /\ Len(sent[c]) = 1
                /\ Request(c).body = args[c].body
                /\ Request(c).body.val.version = args[c].body.val.version
          /\ (Started(c) /\ op[c] = "delete_customer") =>
                /\ Len(sent[c]) = 1
                /\ Request(c).url =
                      Base \o Customers \o Slash \o args[c].customer_id
                           \o DeleteToQueryString(args[c].params)
    /\ \A c, d \in Calls :
          ( /\ Returned(c) /\ Returned(d)
            /\ op[c] \in {"update_customer", "delete_customer"}
            /\ op[d] \in {"update_customer", "delete_customer"}
            /\ transport[c] = transport[d] ) => result[c] = result[d]

\* update_customer without a version returned a conflict while
\* delete_customer with version 1 is in flight on "...?version=1"
C5_Witness ==
    \E c, d \in Calls :
        /\ Returned(c) /\ op[c] = "update_customer"
        /\ args[c].body.val.version = None
        /\ Request(c).body.val.version = None
        /\ result[c].val = Err("api_error_409_conflict")
        /\ Started(d) /\ op[d] = "delete_customer"
        /\ args[d].params.version = Some(1)
        /\ args[d].customer_id = <<"a", "b", "c">>
        /\ Request(d).url = Base \o Customers
              \o <<"/", "a", "b", "c", "?", "v", "e", "r", "s", "i", "o", "n", "=", "1">>

\* what a step may do to a caller it does not belong to: nothing
Untouched(d) ==
    /\ pc'[d] = pc[d] /\ op'[d] = op[d] /\ args'[d] = args[d]
    /\ sent'[d] = sent[d] /\ transport'[d] = transport[d]
    /\ deser'[d] = deser[d] /\ result'[d] = result[d]

C6_SameCallSameRequest ==
    \A c, d \in Calls :
        /\ (Started(c) /\ Started(d) /\ op[c] = op[d] /\ args[c] = args[d]) =>
              sent[c] = sent[d]
        /\ (Returned(c) /\ Returned(d) /\ transport[c] = transport[d]) =>
              result[c] = result[d]

C6_StepFrame ==
    /\ config' = config
    /\ http_client' = http_client
    /\ \A c, d \in Calls : (c # d /\ pc'[c] # pc[c]) => Untouched(d)

\* C6: no step changes the configuration or the transport handle, a step of
\* one call changes nothing of another call, two calls with the same
\* arguments issue the same request and two calls with the same transport
\* outcome return the same result, under every interleaving.
C6_NoSharedMutableState == [](C6_SameCallSameRequest) /\ [][C6_StepFrame]_vars

\* two different calls in flight at once, at different points
C6_Witness ==
    /\ pc["caller1"] = "await_request" /\ pc["caller2"] = "await_deserialize"
    /\ op["caller1"] = "update_customer" /\ op["caller2"] = "list_customers"
    /\ sent["caller1"] # sent["caller2"]

\* C7 as stated: a call is suspended at one point only, the await of the
\* network request.
C7_OneSuspensionPoint ==
    \A c \in Calls :
        /\ pc[c] \in {"idle", "await_request", "returned"}
        /\ suspensions[c] <= 1

\* C7 amended: a call is suspended at the await of the request and, when the
\* transport answered with a response, once more at the await of
\* deserialize(); a returned call was suspended once when the transport
\* failed and twice otherwise.
C7_TwoSuspensionPoints ==
    \A c \in Calls :
        /\ pc[c] = "idle" => suspensions[c] = 0
        /\ pc[c] = "await_request" => suspensions[c] = 1
        /\ pc[c] = "await_deserialize" => suspensions[c] = 2 /\ transport[c].val.ok
        /\ Returned(c) => suspensions[c] = IF transport[c].val.ok THEN 2 ELSE 1

\* a call suspended on deserialize() while the other returned a transport
\* error after one suspension
C7_Witness ==
    \E c, d \in Calls :
        /\ pc[c] = "await_deserialize" /\ suspensions[c] = 2
        /\ Returned(d) /\ ~transport[d].val.ok /\ suspensions[d] = 1

IsPrefix(s, t) == Len(s) <= Len(t) /\ SubSeq(t, 1, Len(s)) = s

Count(s, x) == Cardinality({i \in 1..Len(s) : s[i] = x})

\* C8: the steps of a call are, in order, build URL, send, then either a
\* response, one deserialization and the return, or a transport error and the
\* return with no deserialization.
C8_StepOrder ==
    \A c \in Calls :
        /\ \/ IsPrefix(trace[c], <<"build_url", "send", "response", "deserialize", "return">>)
           \/ IsPrefix(trace[c], <<"build_url", "send", "transport_error", "return">>)
        /\ Count(trace[c], "deserialize") <= 1
        /\ Count(trace[c], "deserialize") = 1 => transport[c].some /\ transport[c].val.ok
        /\ (transport[c].some /\ ~transport[c].val.ok) =>
              Returned(c) /\ Count(trace[c], "deserialize") = 0 /\ ~deser[c].some
        /\ Returned(c) <=> (Len(trace[c]) > 0 /\ trace[c][Len(trace[c])] = "return")

\* one call returned after a transport error without deserializing, the other
\* went through all five steps
C8_Witness ==
    \E c, d \in Calls :
        /\ trace[c] = <<"build_url", "send", "transport_error", "return">>
        /\ trace[d] = <<"build_url", "send", "response", "deserialize", "return">>

QueryOf(o, a) ==
    CASE o = "list_customers" -> ListToQueryString(a.params)
      [] o = "delete_customer" -> DeleteToQueryString(a.params)
      [] OTHER -> << >>

\* C9: list_customers and delete_customer end their URL with the query
\* string (after the id for delete_customer), with an empty query string they
\* request the URLs of create_customer and retrieve_customer, and no other
\* operation puts a "?" into a URL whose ids have none.
C9_QueryStringLast ==
    \A c \in Calls :
        Started(c) =>
            /\ op[c] = "list_customers" =>
                  /\ Request(c).url = Base \o Customers \o ListToQueryString(args[c].params)
                  /\ ListToQueryString(args[c].params) = << >> =>
                        \A b \in CreateBodies :
                            Request(c).url = create_customer_request(config, b).url
            /\ op[c] = "delete_customer" =>
                  /\ Request(c).url = Base \o Customers \o Slash \o args[c].customer_id
                                         \o DeleteToQueryString(args[c].params)
                  /\ DeleteToQueryString(args[c].params) = << >> =>
                        Request(c).url =
                            retrieve_customer_request(config, args[c].customer_id).url
            /\ op[c] \notin {"list_customers", "delete_customer"} =>
                  /\ Request(c).url = Base \o PathOf(op[c], args[c])
                  /\ HasChar(Request(c).url, "?") =>
                        HasChar(args[c].customer_id, "?") \/ HasChar(args[c].group_id, "?")

\* delete_customer("abc", version 1) in flight on ".../customers/abc?version=1"
\* and list_customers without a cursor on ".../customers"
C9_Witness ==
    \E c, d \in Calls :
        /\ Started(c) /\ op[c] = "delete_customer"
        /\ args[c].customer_id = <<"a", "b", "c">>
        /\ args[c].params.version = Some(1)
        /\ Request(c).url[Len(Request(c).url)] = "1"
        /\ Started(d) /\ op[d] = "list_customers"
        /\ args[d].params.cursor = None
        /\ Request(d).url = Base \o Customers

UsesCustomer(o) ==
    o \in {"delete_customer", "retrieve_customer", "update_customer",
           "remove_group_from_customer", "add_group_to_customer"}

UsesGroup(o) == o \in {"remove_group_from_customer", "add_group_to_customer"}

PlainId(s) == Len(s) > 0 /\ ~HasChar(s, "/") /\ ~HasChar(s, "?")

PlainIds(c) ==
    /\ UsesCustomer(op[c]) => PlainId(args[c].customer_id)
    /\ UsesGroup(op[c]) => PlainId(args[c].group_id)

====
